---- MODULE Spec2Model ----
(***************************************************************************)
(* Dominant-colour extraction of the ColorPalette component                *)
(* (src/unnamed/part_000): the canvas sizing, the strided pixel scan, the  *)
(* quantising colour map, the ranking and the hex encoder.                 *)
(*                                                                         *)
(* A JavaScript string is modelled as the sequence of its characters, each *)
(* a one-character string, so that its length and every character can be   *)
(* inspected.  A typed-array read past the end yields Undefined.           *)
(***************************************************************************)
EXTENDS Integers, Sequences, FiniteSets

VARIABLES
    pixels,           \* imageData.data, the flattened RGBA buffer (line 108)
    i,                \* the scan loop's byte offset (line 114)
    colorMap,         \* the Map, as its entries in insertion order (line 111)
    extractedColors,  \* the React state set at line 145
    pc,               \* position inside the operation being modelled
    imgW, imgH,       \* imageElement.width / .height (line 99)
    canvasW, canvasH, \* canvas.width / .height (lines 100-101)
    hexIn, hexOut,    \* argument triple and result of one rgbToHex call
    visited,          \* history: the byte offsets the loop body has run at
    colors,           \* the React state of line 12: the palette's slots
    pickerColor,      \* the React state of line 13
    uploadedImage,    \* the React state of line 15: the preview, or "null"
    pending,          \* the FileReader and Image onload callbacks in flight
    uploadLog,        \* history: the files chosen in the file input, in order
    edits,            \* history: the number of palette handlers run
    lastOp,           \* history: the handler that ran last
    prevColors        \* history: colors as the last handler found it

vars == <<pixels, i, colorMap, extractedColors, pc,
          imgW, imgH, canvasW, canvasH, hexIn, hexOut, visited,
          colors, pickerColor, uploadedImage, pending, uploadLog, edits,
          lastOp, prevColors>>

uiVars == <<colors, pickerColor, uploadedImage, pending, uploadLog, edits,
            lastOp, prevColors>>

extractVars == <<pixels, i, colorMap, extractedColors, visited>>
scaleVars   == <<imgW, imgH, canvasW, canvasH>>
hexVars     == <<hexIn, hexOut>>

(***************************************************************************)
(* Bounds of the checked input space.                                      *)
(***************************************************************************)
MaxSamples == 3   \* sampled positions of a buffer drawn from Palette
MaxLong    == 7   \* sampled positions of a many-bucket buffer
HexSlack   == 12  \* how far below 0 / above 255 an encoder argument goes
MaxDim     == 40  \* image widths and heights 1..MaxDim, and those of EdgeDims
MaxUniform == 9   \* pixels of a buffer of one single colour
MaxUploads == 2   \* files chosen in the file input during one run
MaxEdits   == 2   \* palette handlers run during one run

(***************************************************************************)
(* Program constants.                                                      *)
(***************************************************************************)
maxSize        == 300  \* line 98
ByteStride     == 16   \* line 114: i += 16
AlphaThreshold == 128  \* line 121
QuantStep      == 20   \* lines 124-126
TopK           == 5    \* line 141: slice(0, 5)
HexLength      == 7    \* line 143: color.length === 7
PaletteSlots   == 10   \* line 12: Array(10)

\* the state of the component after construction (lines 12-15)
EmptyPalette  == [k \in 1..PaletteSlots |-> <<>>]
DefaultPicker == <<"#", "3", "b", "8", "2", "f", "6">>
UiIdle ==
    /\ colors = EmptyPalette
    /\ pickerColor = DefaultPicker
    /\ uploadedImage = "null"
    /\ pending = {}
    /\ uploadLog = <<>>
    /\ edits = 0
    /\ lastOp = "none"
    /\ prevColors = EmptyPalette

Undefined == -1        \* the value of an out-of-range typed-array read

Min(a, b) == IF a < b THEN a ELSE b
Max(a, b) == IF a > b THEN a ELSE b

(***************************************************************************)
(* rgbToHex (lines 78-88).                                                 *)
(***************************************************************************)
HexChars == <<"0","1","2","3","4","5","6","7",
              "8","9","a","b","c","d","e","f">>

\* Number.prototype.toString(16) of a non-negative integer: most significant
\* digit first, no padding.  The digits are already lowercase (line 85).
RECURSIVE ToString16(_)
ToString16(x) ==
    IF x < 16 THEN <<HexChars[x + 1]>>
    ELSE ToString16(x \div 16) \o <<HexChars[(x % 16) + 1]>>

\* line 80-82: Math.max(0, Math.min(255, Math.floor(c))); the arguments are
\* integers, on which Math.floor changes nothing.
Clamp(c) == Max(0, Min(255, c))

\* line 86: hex.length === 1 ? "0" + hex : hex
PadHex(hex) == IF Len(hex) = 1 THEN <<"0">> \o hex ELSE hex

rgbToHexNoClamp(r, g, b) ==
    <<"#">> \o PadHex(ToString16(Max(0, r)))
            \o PadHex(ToString16(Max(0, g)))
            \o PadHex(ToString16(Max(0, b)))
rgbToHex(r, g, b) ==
    <<"#">> \o PadHex(ToString16(Clamp(r)))
            \o PadHex(ToString16(Clamp(g)))
            \o PadHex(ToString16(Clamp(b)))

(***************************************************************************)
(* The scan loop of extractColorsFromImage (lines 114-136).                *)
(***************************************************************************)
\* pixels[k] with a 0-based index: undefined beyond the end.
At(px, k) == IF k >= 0 /\ k < Len(px) THEN px[k + 1] ELSE Undefined

\* JavaScript's alpha < 128: false when alpha is undefined (NaN compares false).
JsLess(a, n) == a # Undefined /\ a < n

\* line 121: the pixel at byte offset k is skipped
SkipsNoAlpha(px, k) ==
    \/ At(px, k) = Undefined
    \/ At(px, k + 1) = Undefined
    \/ At(px, k + 2) = Undefined
SkipsAtThreshold(px, k) ==
    \/ JsLess(At(px, k + 3), AlphaThreshold + 1)
    \/ At(px, k) = Undefined
    \/ At(px, k + 1) = Undefined
    \/ At(px, k + 2) = Undefined
Skips(px, k) ==
    \/ JsLess(At(px, k + 3), AlphaThreshold)
    \/ At(px, k) = Undefined
    \/ At(px, k + 1) = Undefined
    \/ At(px, k + 2) = Undefined

\* Math.round(n / d) for n >= 0, d > 0: the nearest integer, halves rounded up.
\* n / 20 is a half only when it is exactly k + 0.5, which a double holds exactly.
MathRoundDivHalfDown(n, d) == (2 * n + d - 1) \div (2 * d)
MathRoundDiv(n, d) == (2 * n + d) \div (2 * d)

\* lines 124-126: Math.round(x / 20) * 20
QuantizeClamped(x) == Min(255, MathRoundDiv(x, QuantStep) * QuantStep)
Quantize(x) == MathRoundDiv(x, QuantStep) * QuantStep

\* Number to decimal string, as the template literal of line 128 produces it.
DecChars == <<"0","1","2","3","4","5","6","7","8","9">>
RECURSIVE ToString10(_)
ToString10(x) ==
    IF x < 10 THEN <<DecChars[x + 1]>>
    ELSE ToString10(x \div 10) \o <<DecChars[(x % 10) + 1]>>

\* line 128: `${groupedR}-${groupedG}-${groupedB}`
ColorKey(gr, gg, gb) ==
    ToString10(gr) \o <<"-">> \o ToString10(gg) \o <<"-">> \o ToString10(gb)

\* colorMap.has(key): the position of the entry, 0 when there is none
IndexOfKey(cm, key) ==
    IF \E n \in 1..Len(cm) : cm[n].key = key
    THEN CHOOSE n \in 1..Len(cm) : cm[n].key = key
    ELSE 0

\* lines 123-135 for the pixel at byte offset k, which is not skipped
InsertOrIncrementRawKey(cm, px, k) ==
    LET key == ColorKey(At(px, k), At(px, k + 1), At(px, k + 2))
        n   == IndexOfKey(cm, key)
    IN  IF n # 0
        THEN [cm EXCEPT ![n].count = @ + 1]
        ELSE Append(cm, [key |-> key, r |-> Quantize(At(px, k)),
                         g |-> Quantize(At(px, k + 1)),
                         b |-> Quantize(At(px, k + 2)), count |-> 1])
InsertOrIncrement(cm, px, k) ==
    LET gr  == Quantize(At(px, k))
        gg  == Quantize(At(px, k + 1))
        gb  == Quantize(At(px, k + 2))
        key == ColorKey(gr, gg, gb)
        n   == IndexOfKey(cm, key)
    IN  IF n # 0
        THEN [cm EXCEPT ![n].count = @ + 1]
        ELSE Append(cm, [key |-> key, r |-> gr, g |-> gg, b |-> gb, count |-> 1])

\* line 114: i += 16
NextOffsetOnePixel(k) == k + 4
NextOffset(k) == k + ByteStride

\* one iteration of the loop body (lines 115-135)
LoopBody(cm, px, k) == IF Skips(px, k) THEN cm ELSE InsertOrIncrement(cm, px, k)

(***************************************************************************)
(* Ranking and encoding (lines 139-143).                                   *)
(***************************************************************************)
\* Array.prototype.sort with the comparator b.count - a.count.  The sort is
\* stable (ECMAScript 2019): an entry goes behind every entry whose count is
\* not lower, so entries of equal count keep their order.
InsertByCountUnstable(sorted, e) ==
    SelectSeq(sorted, LAMBDA x : x.count > e.count)
        \o <<e>> \o SelectSeq(sorted, LAMBDA x : x.count <= e.count)
InsertByCount(sorted, e) ==
    SelectSeq(sorted, LAMBDA x : x.count >= e.count)
        \o <<e>> \o SelectSeq(sorted, LAMBDA x : x.count < e.count)

RECURSIVE SortByCount(_)
SortByCount(cm) ==
    IF cm = <<>> THEN <<>>
    ELSE InsertByCount(SortByCount(SubSeq(cm, 1, Len(cm) - 1)), cm[Len(cm)])

\* Array.prototype.slice(0, n)
SliceAll(s, n) == s
Slice(s, n) == SubSeq(s, 1, Min(n, Len(s)))

\* lines 139-143: values() -> sort -> slice(0, 5) -> map(rgbToHex) -> filter
RankAndEncode(cm) ==
    LET top == Slice(SortByCount(cm), TopK)
        hex == [n \in 1..Len(top) |-> rgbToHex(top[n].r, top[n].g, top[n].b)]
    IN  SelectSeq(hex, LAMBDA c : Len(c) = HexLength)

(***************************************************************************)
(* The pixel buffers the scan is checked on.  Every fourth pixel is drawn  *)
(* from a palette; the three pixels behind it are an opaque filler colour  *)
(* of a bucket of its own, which a correct stride never reads.             *)
(***************************************************************************)
PA == <<100, 150, 200, 255>>   \* bucket (100,160,200); 150 is a half
PB == <<109, 151, 190, 200>>   \* the same bucket from other bytes
PC == <<255, 250, 9, 128>>     \* bucket (260,260,0), alpha on the threshold
PD == <<255, 255, 255, 127>>   \* alpha just below the threshold
PE == <<0, 10, 30, 0>>         \* fully transparent
Palette == {PA, PB, PC, PD, PE}
Filler  == <<40, 40, 40, 255>>
ClearFiller == <<40, 40, 40, 0>>

\* the j-th sampled pixel of a many-bucket buffer: a bucket of its own
PosPixel(j) == <<QuantStep * j, 40, 60, 255>>

\* a sampled pixel and the three pixels the stride steps over
Group(p, f) == p \o f \o f \o f

RECURSIVE GroupAll(_, _)
GroupAll(s, f) ==
    IF s = <<>> THEN <<>> ELSE Group(Head(s), f) \o GroupAll(Tail(s), f)

\* the buffer without its last c bytes
Cut(px, c) == SubSeq(px, 1, Max(0, Len(px) - c))

SeqsUpTo(S, n) == UNION {[1..k -> S] : k \in 0..n}

\* every length up to 16 * MaxSamples, whole pixels or not
ShortBuffers ==
    {Cut(GroupAll(s[1], s[2]), c) :
        s \in SeqsUpTo(Palette, MaxSamples) \X {Filler, ClearFiller},
        c \in 0..(ByteStride - 1)}

LongChoice(j, c) == IF c = 0 THEN PosPixel(j) ELSE IF c = 1 THEN PA ELSE PC
LongBuffers ==
    {GroupAll([j \in 1..Len(f) |-> LongChoice(j, f[j])], Filler) :
        f \in UNION {[1..k -> 0..2] : k \in (MaxSamples + 1)..MaxLong}}

\* one sampled pixel, every byte value in every channel / in alpha
ChannelRamp ==
    {Group(<<x, 255 - x, (7 * x) % 256, 255>>, Filler) : x \in 0..255}
AlphaRamp   == {Group(<<100, 150, 200, a>>, Filler) : a \in 0..255}

\* n pixels, all of one colour
RECURSIVE Repeat(_, _)
Repeat(p, n) == IF n = 0 THEN <<>> ELSE p \o Repeat(p, n - 1)

UniformColours ==
    {PA, PB, PC, <<255, 255, 255, 255>>, <<0, 0, 0, 128>>, <<9, 10, 11, 129>>}
UniformBuffers ==
    {Repeat(p, n) : p \in UniformColours, n \in 1..MaxUniform}

\* buckets that differ only where one channel is 240 and the other 260
PF == <<240, 250, 9, 255>>     \* bucket (240,260,0)
PG == <<255, 240, 9, 255>>     \* bucket (260,240,0)
ClampEdgeBuffers ==
    {GroupAll(s, Filler) : s \in SeqsUpTo({PC, PF, PG}, 3)}

Buffers ==
    ShortBuffers \cup LongBuffers \cup ChannelRamp \cup AlphaRamp
        \cup UniformBuffers \cup ClampEdgeBuffers

(***************************************************************************)
(* Spec: one run of the scan, ranking and encoding over a buffer.          *)
(***************************************************************************)
Init ==
    /\ pixels \in Buffers
    /\ i = 0
    /\ colorMap = <<>>
    /\ extractedColors = <<>>
    /\ pc = "scan"
    /\ imgW = 0 /\ imgH = 0 /\ canvasW = 0 /\ canvasH = 0
    /\ hexIn = <<0, 0, 0>> /\ hexOut = <<>>
    /\ visited = <<>>
    /\ UiIdle

\* one iteration of the for loop (lines 114-136)
ScanStep ==
    /\ pc = "scan"
    /\ i < Len(pixels)
    /\ colorMap' = LoopBody(colorMap, pixels, i)
    /\ i' = NextOffset(i)
    /\ visited' = Append(visited, i)
    /\ UNCHANGED <<pixels, extractedColors, pc, scaleVars, hexVars, uiVars>>

\* loop exit, lines 139-145
Finish ==
    /\ pc = "scan"
    /\ ~(i < Len(pixels))
    /\ extractedColors' = RankAndEncode(colorMap)
    /\ pc' = "done"
    /\ UNCHANGED <<pixels, i, colorMap, visited, scaleVars, hexVars, uiVars>>

Next == ScanStep \/ Finish

Spec == Init /\ [][Next]_vars

(***************************************************************************)
(* SpecHex: one call of rgbToHex on an integer triple, in and out of range.*)
(***************************************************************************)
HexFull  == (0 - HexSlack)..(255 + HexSlack)
HexSmall == {-1, 0, 9, 16, 255, 260}
HexInputs ==
    {<<x, y, z>> : x \in HexFull, y \in HexSmall, z \in HexSmall}
        \cup {<<y, x, z>> : x \in HexFull, y \in HexSmall, z \in HexSmall}
        \cup {<<y, z, x>> : x \in HexFull, y \in HexSmall, z \in HexSmall}

InitHex ==
    /\ hexIn \in HexInputs
    /\ hexOut = <<>>
    /\ pc = "encode"
    /\ pixels = <<>> /\ i = 0 /\ colorMap = <<>> /\ extractedColors = <<>>
    /\ visited = <<>>
    /\ imgW = 0 /\ imgH = 0 /\ canvasW = 0 /\ canvasH = 0
    /\ UiIdle

Encode ==
    /\ pc = "encode"
    /\ hexOut' = rgbToHex(hexIn[1], hexIn[2], hexIn[3])
    /\ pc' = "encoded"
    /\ UNCHANGED <<hexIn, extractVars, scaleVars, uiVars>>

NextHex == Encode

SpecHex == InitHex /\ [][NextHex]_vars

(***************************************************************************)
(* Canvas sizing (lines 98-107).  The ratio and the two products are IEEE  *)
(* 754 doubles.  A positive double is [m, e]: its 53-bit mantissa m, held  *)
(* as the leading bit m[1] = 1 and four limbs m[2..5] of 13 bits each,     *)
(* most significant first, and the value is m (read as one integer) times  *)
(* 2^e.  Every operation is computed exactly on the limbs and then rounded *)
(* to nearest, ties to even, as the hardware does.  Operands are integers  *)
(* below 2^17, which keeps every intermediate inside 32 bits.              *)
(***************************************************************************)
LimbBase == 2 ^ 13
Front(s) == SubSeq(s, 1, Len(s) - 1)
Last(s)  == s[Len(s)]

\* scale num / den into [1, 2): <<num', den', t>> with num/den = num'/den' * 2^t
RECURSIVE Normalise(_, _, _)
Normalise(num, den, t) ==
    IF num < den THEN Normalise(2 * num, den, t - 1)
    ELSE IF num >= 2 * den THEN Normalise(num, 2 * den, t + 1)
    ELSE <<num, den, t>>

\* n limbs of the expansion of r / den (0 <= r < den), by long division:
\* <<the limbs, the remainder left>>
RECURSIVE DivLimbs(_, _, _)
DivLimbs(r, den, n) ==
    IF n = 0 THEN <<<<>>, r>>
    ELSE LET rest == DivLimbs((r * LimbBase) % den, den, n - 1)
         IN  <<<<(r * LimbBase) \div den>> \o rest[1], rest[2]>>

\* round to nearest, ties to even: m the 53 leading bits, guard the next
\* bit, sticky whether anything non-zero follows the guard bit
RoundNearestEven(m, guard, sticky, e) ==
    IF ~(guard = 1 /\ (sticky \/ Last(m) % 2 = 1)) THEN [m |-> m, e |-> e]
    ELSE IF \A j \in 2..Len(m) : m[j] = LimbBase - 1
         THEN [m |-> [j \in 1..Len(m) |-> IF j = 1 THEN 1 ELSE 0], e |-> e + 1]
         ELSE LET c == CHOOSE j \in 2..Len(m) :
                          /\ m[j] < LimbBase - 1
                          /\ \A h \in (j + 1)..Len(m) : m[h] = LimbBase - 1
              IN  [m |-> [j \in 1..Len(m) |->
                            IF j < c THEN m[j] ELSE IF j = c THEN m[j] + 1 ELSE 0],
                   e |-> e]

\* a / b for positive integers a, b (line 99: maxSize / imageElement.width)
FDiv(a, b) ==
    LET nz    == Normalise(a, b, 0)
        q     == DivLimbs(nz[1] - nz[2], nz[2], 4)
        guard == IF 2 * q[2] >= nz[2] THEN 1 ELSE 0
    IN  RoundNearestEven(<<1>> \o q[1], guard,
                         2 * q[2] - guard * nz[2] # 0, nz[3] - 52)

\* x < y for two positive doubles
FLess(x, y) ==
    \/ x.e < y.e
    \/ /\ x.e = y.e
       /\ \E j \in 1..Len(x.m) :
             /\ x.m[j] < y.m[j]
             /\ \A h \in 1..(j - 1) : x.m[h] = y.m[h]

\* Math.min (line 99)
MathMin(x, y) == IF FLess(y, x) THEN y ELSE x

\* limbs * n + carry, exactly: <<the part above the limbs, the limbs>>
RECURSIVE MulLimbs(_, _, _)
MulLimbs(limbs, n, carry) ==
    IF limbs = <<>> THEN <<carry, <<>>>>
    ELSE LET t    == Last(limbs) * n + carry
             rest == MulLimbs(Front(limbs), n, t \div LimbBase)
         IN  <<rest[1], rest[2] \o <<t % LimbBase>>>>

\* (rem * LimbBase^k + limbs) shifted right by s bits, rem < 2^s:
\* <<the limbs of the quotient, the s bits shifted out>>
RECURSIVE ShiftLimbs(_, _, _)
ShiftLimbs(rem, limbs, s) ==
    IF limbs = <<>> THEN <<<<>>, rem>>
    ELSE LET cur  == rem * LimbBase + Head(limbs)
             rest == ShiftLimbs(cur % (2 ^ s), Tail(limbs), s)
         IN  <<<<cur \div (2 ^ s)>> \o rest[1], rest[2]>>

\* n * x for a positive integer n and a double x
\* (lines 100-101: imageElement.width * ratio)
FMulInt(n, x) ==
    LET p     == MulLimbs(Tail(x.m), n, 0)
        high  == n + p[1]
        s     == CHOOSE k \in 0..17 : 2 ^ k <= high /\ high < 2 ^ (k + 1)
        q     == ShiftLimbs(high % (2 ^ s), p[2], s)
        guard == IF s >= 1 THEN q[2] \div (2 ^ (s - 1)) ELSE 0
    IN  RoundNearestEven(<<1>> \o q[1], guard,
                         s >= 1 /\ q[2] % (2 ^ (s - 1)) # 0, x.e + s)

\* the canvas.width / canvas.height setter: the double converted to an
\* unsigned long, which drops the fraction.  k is the number of bits in
\* front of the binary point; the values here are below 2^27.
ToUnsignedLong(x) ==
    LET k == 53 + x.e
    IN  IF k <= 0 THEN 0
        ELSE ((x.m[1] * LimbBase + x.m[2]) * LimbBase + x.m[3])
                \div (2 ^ (27 - k))

\* line 99
Ratio(w, h) == MathMin(FDiv(maxSize, w), FDiv(maxSize, h))

\* lines 100-101
CanvasSize(w, h) ==
    <<ToUnsignedLong(FMulInt(w, Ratio(w, h))),
      ToUnsignedLong(FMulInt(h, Ratio(w, h)))>>

(***************************************************************************)
(* SpecScale: the sizing of the canvas for one image, and the read of its  *)
(* pixels.                                                                 *)
(***************************************************************************)
EdgeDims == {281, 291, 299, 300, 301, 1000}
Dims == (1..MaxDim) \cup EdgeDims

InitScale ==
    /\ imgW \in Dims
    /\ imgH \in Dims
    /\ canvasW = 0 /\ canvasH = 0
    /\ pc = "resize"
    /\ pixels = <<>> /\ i = 0 /\ colorMap = <<>> /\ extractedColors = <<>>
    /\ visited = <<>>
    /\ hexIn = <<0, 0, 0>> /\ hexOut = <<>>
    /\ UiIdle

\* lines 98-101
Resize ==
    /\ pc = "resize"
    /\ canvasW' = CanvasSize(imgW, imgH)[1]
    /\ canvasH' = CanvasSize(imgW, imgH)[2]
    /\ pc' = "resized"
    /\ UNCHANGED <<imgW, imgH, extractVars, hexVars, uiVars>>

\* lines 104-107: getImageData throws IndexSizeError for a zero width or
\* height, and the handler ends there; otherwise the buffer is read
GetImageData ==
    /\ pc = "resized"
    /\ pc' = IF canvasW = 0 \/ canvasH = 0 THEN "threw" ELSE "read"
    /\ UNCHANGED <<scaleVars, extractVars, hexVars, uiVars>>

NextScale == Resize \/ GetImageData

SpecScale == InitScale /\ [][NextScale]_vars

(***************************************************************************)
(* SpecUI: the component's handlers.  A handler reads the state of the     *)
(* render it was created in; React applies the state updates a handler     *)
(* queued when the handler returns, a later setColors(value) replacing an  *)
(* earlier one, and renders again before the next event is handled.        *)
(* copyColor and exportPalette change no state and are left out.           *)
(***************************************************************************)
\* the whole loop of lines 114-136 over a buffer
RECURSIVE ScanFrom(_, _, _)
ScanFrom(cm, px, k) ==
    IF k < Len(px) THEN ScanFrom(LoopBody(cm, px, k), px, NextOffset(k)) ELSE cm

\* lines 108-143: the colours extractColorsFromImage hands to
\* setExtractedColors for the buffer getImageData returned
ExtractColors(px) == RankAndEncode(ScanFrom(<<>>, px, 0))

\* the files offered to the file input: two images, an image whose canvas
\* gets a zero height, and a file that is no image
Files == {"A", "B", "T", "N"}

\* line 156: file.type.startsWith('image/')
FileIsImage(f) == f # "N"

\* the decoded image's width and height
FileSize(f) ==
    IF f = "A" THEN <<10, 10>> ELSE IF f = "B" THEN <<400, 300>> ELSE <<1000, 1>>

\* the buffer getImageData returns once the image is drawn on the canvas
FileBuffer(f) ==
    IF f = "A" THEN GroupAll(<<PA, PC>>, Filler)
    ELSE GroupAll([j \in 1..6 |-> PosPixel(j)], Filler)

\* what the user can type into a slot's input
TypedValues == {<<>>, <<"a", "b", "c">>}
\* what the user can set the picker to (line 362)
PickerValues == {DefaultPicker, <<"#", "e", "f", "4", "4", "4", "4">>}

\* colors.findIndex((c) => !c), 1-based; 0 for -1
FindEmpty(cs) ==
    IF \E k \in 1..Len(cs) : cs[k] = <<>>
    THEN CHOOSE k \in 1..Len(cs) :
            cs[k] = <<>> /\ \A j \in 1..(k - 1) : cs[j] # <<>>
    ELSE 0

\* addExtractedColor(color) (lines 47-65) run in a render whose colors is
\* cs: the value it passes to setColors, or queued when it calls none
AddExtractedColor(cs, color, queued) ==
    IF FindEmpty(cs) # 0 THEN [cs EXCEPT ![FindEmpty(cs)] = color] ELSE queued

\* line 441: extractedColors.forEach((color) => addExtractedColor(color));
\* every call runs in the same render
RECURSIVE ForEachAdd(_, _, _)
ForEachAdd(cs, cols, queued) ==
    IF cols = <<>> THEN queued
    ELSE ForEachAdd(cs, Tail(cols), AddExtractedColor(cs, Head(cols), queued))

InitUI ==
    /\ UiIdle
    /\ pixels = <<>> /\ i = 0 /\ colorMap = <<>> /\ extractedColors = <<>>
    /\ visited = <<>>
    /\ pc = "ui"
    /\ imgW = 0 /\ imgH = 0 /\ canvasW = 0 /\ canvasH = 0
    /\ hexIn = <<0, 0, 0>> /\ hexOut = <<>>

uiRest == <<pixels, i, colorMap, visited, pc, scaleVars, hexVars>>

\* a palette handler ran: the history
Edited(op) ==
    /\ edits < MaxEdits
    /\ edits' = edits + 1
    /\ lastOp' = op
    /\ prevColors' = colors

\* lines 31-35
HandleColorChange ==
    /\ pc = "ui"
    /\ \E index \in 1..PaletteSlots, value \in TypedValues :
          colors' = [colors EXCEPT ![index] = value]
    /\ Edited("handleColorChange")
    /\ UNCHANGED <<pickerColor, uploadedImage, pending, uploadLog,
                   extractedColors, uiRest>>

\* lines 320, 328, 368
SetPickerColor ==
    /\ pc = "ui"
    /\ \E value \in PickerValues : pickerColor' = value
    /\ Edited("setPickerColor")
    /\ UNCHANGED <<colors, uploadedImage, pending, uploadLog,
                   extractedColors, uiRest>>

\* lines 37-45, from the "+" button of a row (line 282)
AddColorFromPicker ==
    /\ pc = "ui"
    /\ \E index \in 1..PaletteSlots :
          colors' = [colors EXCEPT ![index] = pickerColor]
    /\ Edited("addColorFromPicker")
    /\ UNCHANGED <<pickerColor, uploadedImage, pending, uploadLog,
                   extractedColors, uiRest>>

\* lines 340-350: "Add to Next"
AddToNext ==
    /\ pc = "ui"
    /\ colors' = IF FindEmpty(colors) # 0
                 THEN [colors EXCEPT ![FindEmpty(colors)] = pickerColor]
                 ELSE colors
    /\ Edited("addToNext")
    /\ UNCHANGED <<pickerColor, uploadedImage, pending, uploadLog,
                   extractedColors, uiRest>>

\* line 429: the "Add" button of one extracted colour
AddOne ==
    /\ pc = "ui"
    /\ \E n \in 1..Len(extractedColors) :
          colors' = AddExtractedColor(colors, extractedColors[n], colors)
    /\ Edited("addExtractedColor")
    /\ UNCHANGED <<pickerColor, uploadedImage, pending, uploadLog,
                   extractedColors, uiRest>>

\* lines 437-446: "Add All Colors", rendered when extractedColors is not empty
AddAllColors ==
    /\ pc = "ui"
    /\ Len(extractedColors) > 0
    /\ colors' = ForEachAdd(colors, extractedColors, colors)
    /\ Edited("addAll")
    /\ UNCHANGED <<pickerColor, uploadedImage, pending, uploadLog,
                   extractedColors, uiRest>>

\* lines 200-206
ClearAll ==
    /\ pc = "ui"
    /\ colors' = EmptyPalette
    /\ Edited("clearAll")
    /\ UNCHANGED <<pickerColor, uploadedImage, pending, uploadLog,
                   extractedColors, uiRest>>

\* lines 152-176: a file is chosen; an image file starts a FileReader
HandleImageUpload ==
    /\ pc = "ui"
    /\ Len(uploadLog) < MaxUploads
    /\ \E f \in Files :
          /\ uploadLog' = Append(uploadLog, f)
          /\ pending' = IF FileIsImage(f)
                        THEN pending \cup {[kind |-> "reader", file |-> f,
                                            n |-> Len(uploadLog) + 1]}
                        ELSE pending
    /\ lastOp' = "handleImageUpload"
    /\ prevColors' = colors
    /\ UNCHANGED <<colors, pickerColor, uploadedImage, edits,
                   extractedColors, uiRest>>

\* lines 166-174: reader.onload sets the preview and starts the decode
ReaderOnload ==
    /\ pc = "ui"
    /\ \E cb \in pending :
          /\ cb.kind = "reader"
          /\ uploadedImage' = cb.file
          /\ pending' = (pending \ {cb})
                           \cup {[kind |-> "image", file |-> cb.file, n |-> cb.n]}
    /\ lastOp' = "readerOnload"
    /\ prevColors' = colors
    /\ UNCHANGED <<colors, pickerColor, uploadLog, edits,
                   extractedColors, uiRest>>

\* line 172: img.onload runs extractColorsFromImage (lines 90-150); on a
\* canvas of zero width or height getImageData throws and no state is set
ImageOnload ==
    /\ pc = "ui"
    /\ \E cb \in pending :
          /\ cb.kind = "image"
          /\ pending' = pending \ {cb}
          /\ LET size == CanvasSize(FileSize(cb.file)[1], FileSize(cb.file)[2])
             IN  extractedColors' =
                    IF size[1] = 0 \/ size[2] = 0 THEN extractedColors
                    ELSE ExtractColors(FileBuffer(cb.file))
    /\ lastOp' = "imageOnload"
    /\ prevColors' = colors
    /\ UNCHANGED <<colors, pickerColor, uploadedImage, uploadLog, edits, uiRest>>

NextUI ==
    \/ HandleColorChange \/ SetPickerColor \/ AddColorFromPicker \/ AddToNext
    \/ AddOne \/ AddAllColors \/ ClearAll
    \/ HandleImageUpload \/ ReaderOnload \/ ImageOnload

SpecUI == InitUI /\ [][NextUI]_vars

(***************************************************************************)
(* Properties of the scan, the ranking and the encoding, checked under     *)
(* Spec.                                                                   *)
(***************************************************************************)
HexCharSet == {HexChars[n] : n \in 1..16}

\* c matches ^#[0-9a-f]{6}$
IsHexColor(c) ==
    /\ Len(c) = 7
    /\ c[1] = "#"
    /\ \A n \in 2..7 : c[n] \in HexCharSet

IsRgbaBuffer(px) == Len(px) % 4 = 0

RECURSIVE TotalCount(_)
TotalCount(cm) == IF cm = <<>> THEN 0 ELSE Head(cm).count + TotalCount(Tail(cm))

\* C1: for every RGBA buffer (a length that is a multiple of 4, 0 included)
\* the extraction returns between 0 and 5 strings, each of them a '#' and
\* exactly six lowercase hex digits.
C1_ResultShape ==
    (pc = "done" /\ IsRgbaBuffer(pixels)) =>
        /\ Len(extractedColors) \in 0..5
        /\ \A n \in 1..Len(extractedColors) : IsHexColor(extractedColors[n])

\* more than five buckets, five colours returned, one of them from a 260
C1_Witness ==
    /\ pc = "done" /\ IsRgbaBuffer(pixels)
    /\ Len(colorMap) > 5
    /\ Len(extractedColors) = 5
    /\ \E n \in 1..5 : extractedColors[n][2] = "f" /\ extractedColors[n][3] = "f"

\* the place of bucket n in the order by count descending, insertion ascending
Rank(cm, n) ==
    1 + Cardinality({m \in 1..Len(cm) :
            \/ cm[m].count > cm[n].count
            \/ cm[m].count = cm[n].count /\ m < n})

\* the first visited offset whose pixel was counted into the bucket of this key
FirstOffset(key) ==
    LET hits == {k \in {visited[n] : n \in 1..Len(visited)} :
                    /\ ~Skips(pixels, k)
                    /\ ColorKey(Quantize(At(pixels, k)),
                                Quantize(At(pixels, k + 1)),
                                Quantize(At(pixels, k + 2))) = key}
    IN  CHOOSE k \in hits : \A h \in hits : k <= h

\* C2: the output is ordered by bucket count, descending; buckets of equal
\* count appear in the order in which their keys were first met in the scan.
C2_RankedByCount ==
    pc = "done" =>
        /\ \A n \in 1..Len(colorMap) :
              Rank(colorMap, n) <= 5 =>
                 /\ Rank(colorMap, n) <= Len(extractedColors)
                 /\ extractedColors[Rank(colorMap, n)] =
                       rgbToHex(colorMap[n].r, colorMap[n].g, colorMap[n].b)
        /\ \A m, n \in 1..Len(colorMap) :
              m < n => FirstOffset(colorMap[m].key) < FirstOffset(colorMap[n].key)

\* a later bucket overtakes an earlier one, and two returned buckets tie
C2_Witness ==
    /\ pc = "done"
    /\ Len(extractedColors) >= 3
    /\ \E m, n \in 1..Len(colorMap) :
          m < n /\ colorMap[m].count < colorMap[n].count
    /\ \E m, n \in 1..Len(colorMap) :
          /\ m < n /\ colorMap[m].count = colorMap[n].count
          /\ Rank(colorMap, n) <= 5

\* every pixel of an RGBA buffer has alpha below 128 (true of the empty buffer)
AllTransparent(px) ==
    /\ IsRgbaBuffer(px)
    /\ \A q \in 0..((Len(px) \div 4) - 1) : px[4 * q + 4] < 128

\* C5: a buffer all of whose pixels have alpha below 128, and the empty
\* buffer, create no bucket and yield the empty result.
C5_TransparentEmpty ==
    AllTransparent(pixels) => colorMap = <<>> /\ extractedColors = <<>>

C5_Witness ==
    /\ pc = "done"
    /\ AllTransparent(pixels)
    /\ Len(visited) >= 2
    /\ \E k \in 1..Len(pixels) : k % 4 = 0 /\ pixels[k] = 127
    /\ \E k \in 1..Len(pixels) : k % 4 = 0 /\ pixels[k] = 0
    /\ extractedColors = <<>>

\* cm2 is cm with exactly one bucket created (count 1) or incremented by one
OneBucketBumped(cm, cm2) ==
    \/ /\ Len(cm2) = Len(cm) + 1
       /\ SubSeq(cm2, 1, Len(cm)) = cm
       /\ cm2[Len(cm2)].count = 1
    \/ \E n \in 1..Len(cm) : cm2 = [cm EXCEPT ![n].count = @ + 1]

\* C6: a visited pixel with alpha < 128 creates or increments no bucket; one
\* with alpha >= 128 (128 included) creates or increments exactly one.
C6_AlphaDecides ==
    [][(pc = "scan" /\ visited' # visited) =>
          LET a == At(pixels, i + 3)
          IN  /\ (a # Undefined /\ a < 128) => colorMap' = colorMap
              /\ (a # Undefined /\ a >= 128) => OneBucketBumped(colorMap, colorMap')
      ]_vars

\* a pixel on the threshold was counted, one just below it was not
C6_Witness ==
    /\ pc = "done"
    /\ \E n \in 1..Len(visited) : At(pixels, visited[n] + 3) = 128
    /\ \E n \in 1..Len(visited) : At(pixels, visited[n] + 3) = 127
    /\ TotalCount(colorMap) =
          Cardinality({n \in 1..Len(visited) : At(pixels, visited[n] + 3) >= 128})
    /\ TotalCount(colorMap) >= 1

\* all four bytes of the pixel at byte offset k lie inside the buffer
Complete(px, k) == k + 3 < Len(px)

CeilDiv(a, b) == (a + b - 1) \div b

\* C8: the loop body runs at byte offsets 0, 16, 32, ... (pixel index 4k),
\* never at or beyond the end, and for N pixels at exactly ceil(N/4) positions.
C8_Stride ==
    /\ \A n \in 1..Len(visited) :
          /\ visited[n] = 4 * (4 * (n - 1))
          /\ visited[n] < Len(pixels)
    /\ (pc = "done" /\ IsRgbaBuffer(pixels)) =>
          Len(visited) = CeilDiv(Len(pixels) \div 4, 4)

\* a pixel count that is no multiple of 4, more than one position
C8_Witness ==
    /\ pc = "done" /\ IsRgbaBuffer(pixels)
    /\ (Len(pixels) \div 4) % 4 # 0
    /\ Len(visited) >= 2

Grid == {20 * n : n \in 0..13}

\* m is q(x): the multiple of 20 nearest to x, a half going up
IsQ(x, m) == m \in Grid /\ (x - m) \in -10..9

\* C9: every counted pixel lies in the bucket whose key and representative
\* are (q(r),q(g),q(b)), q(x) = round(x/20)*20 with halves up; each channel of
\* a representative is one of 0,20,...,260, a byte of 250..255 is stored as 260,
\* and no two buckets share a representative.
C9_QuantizedBuckets ==
    /\ \A n \in 1..Len(colorMap) :
          /\ {colorMap[n].r, colorMap[n].g, colorMap[n].b} \subseteq Grid
          /\ colorMap[n].key =
                ColorKey(colorMap[n].r, colorMap[n].g, colorMap[n].b)
    /\ \A m, n \in 1..Len(colorMap) :
          (colorMap[m].key = colorMap[n].key
             \/ <<colorMap[m].r, colorMap[m].g, colorMap[m].b>> =
                <<colorMap[n].r, colorMap[n].g, colorMap[n].b>>) => m = n
    /\ \A j \in 1..Len(visited) :
          LET k == visited[j]
          IN  ~Skips(pixels, k) =>
                \E n \in 1..Len(colorMap) :
                    /\ IsQ(At(pixels, k), colorMap[n].r)
                    /\ IsQ(At(pixels, k + 1), colorMap[n].g)
                    /\ IsQ(At(pixels, k + 2), colorMap[n].b)
                    /\ At(pixels, k) >= 250 => colorMap[n].r = 260
                    /\ At(pixels, k + 1) >= 250 => colorMap[n].g = 260
                    /\ At(pixels, k + 2) >= 250 => colorMap[n].b = 260
    /\ TotalCount(colorMap) =
          Cardinality({j \in 1..Len(visited) : ~Skips(pixels, visited[j])})

\* a 260 is stored, and two different pixels (150 and 151 in green) share
\* the bucket (100,160,200)
C9_Witness ==
    /\ \E n \in 1..Len(colorMap) : colorMap[n].r = 260
    /\ \E n \in 1..Len(colorMap) :
          /\ <<colorMap[n].r, colorMap[n].g, colorMap[n].b>> = <<100, 160, 200>>
          /\ colorMap[n].count >= 2
    /\ \E j \in 1..Len(visited) : At(pixels, visited[j] + 1) = 150
    /\ \E j \in 1..Len(visited) : At(pixels, visited[j] + 1) = 151

(***************************************************************************)
(* Properties of the canvas sizing, checked under SpecScale.               *)
(***************************************************************************)
\* C3: for every image of positive width and height the canvas is at least
\* 1 x 1: neither floor(W*r) nor floor(H*r), r = min(300/W, 300/H), is 0.
C3_CanvasAtLeastOne ==
    pc # "resize" => canvasW >= 1 /\ canvasH >= 1

\* C4: the ratio is not capped at 1; the canvas is floor(W*r) x floor(H*r)
\* with r = min(300/W, 300/H), so its longer side is always exactly 300.
C4_LongerSide300 ==
    pc # "resize" =>
        /\ canvasW = (300 * imgW) \div Max(imgW, imgH)
        /\ canvasH = (300 * imgH) \div Max(imgW, imgH)
        /\ Max(canvasW, canvasH) = 300

(***************************************************************************)
(* Properties of the encoder, checked under SpecHex.                       *)
(***************************************************************************)
Saturate(c) == IF c < 0 THEN 0 ELSE IF c > 255 THEN 255 ELSE c

TwoHexDigits(c) == <<HexChars[(c \div 16) + 1], HexChars[(c % 16) + 1]>>

\* C10: for every integer triple, below 0 and above 255 included, rgbToHex
\* returns '#' and then, for r, g and b in that order, the two-digit
\* zero-padded lowercase hex form of min(255, max(0, channel)): 7 characters.
C10_EncodesClamped ==
    pc = "encoded" =>
        /\ hexOut = <<"#">> \o TwoHexDigits(Saturate(hexIn[1]))
                            \o TwoHexDigits(Saturate(hexIn[2]))
                            \o TwoHexDigits(Saturate(hexIn[3]))
        /\ Len(hexOut) = 7

\* 260 encodes as ff, a negative value as 00, a one-digit value is padded
C10_Witness ==
    /\ pc = "encoded"
    /\ hexIn = <<260, -1, 9>>
    /\ hexOut = <<"#", "f", "f", "0", "0", "0", "9">>

(***************************************************************************)
(* Properties of whole extractions, checked under Spec.                    *)
(***************************************************************************)
\* a non-empty RGBA buffer all of whose pixels equal the first one, which
\* has alpha at least 128
IsUniformOpaque(px) ==
    /\ IsRgbaBuffer(px) /\ Len(px) > 0
    /\ px[4] >= 128
    /\ \A k \in 1..Len(px) : px[k] = px[((k - 1) % 4) + 1]

\* q(x): the multiple of 20 nearest to x, a half going up
QOf(x) == CHOOSE m \in Grid : IsQ(x, m)

\* C11: a non-empty buffer of one single colour (r,g,b) with alpha >= 128
\* yields exactly one string, the encoding of (q(r),q(g),q(b)) clamped to
\* 0..255; for the pixel (100,150,200,255) it is '#64a0c8'.
C11_SingleColour ==
    (pc = "done" /\ IsUniformOpaque(pixels)) =>
        /\ extractedColors =
              << <<"#">> \o TwoHexDigits(Saturate(QOf(pixels[1])))
                         \o TwoHexDigits(Saturate(QOf(pixels[2])))
                         \o TwoHexDigits(Saturate(QOf(pixels[3]))) >>
        /\ SubSeq(pixels, 1, 4) = <<100, 150, 200, 255>> =>
              extractedColors = << <<"#", "6", "4", "a", "0", "c", "8">> >>

\* several pixels of (100,150,200,255), more than one of them visited
C11_Witness ==
    /\ pc = "done"
    /\ IsUniformOpaque(pixels)
    /\ SubSeq(pixels, 1, 4) = <<100, 150, 200, 255>>
    /\ Len(visited) >= 2
    /\ extractedColors = << <<"#", "6", "4", "a", "0", "c", "8">> >>

\* C12: the length-7 filter drops nothing: the result has exactly min(5, B)
\* entries, B the number of buckets, and its entries are, in order, the
\* encodings of the min(5, B) highest-ranked buckets.
C12_FilterDropsNothing ==
    pc = "done" =>
        /\ Len(extractedColors) = Min(5, Len(colorMap))
        /\ \A n \in 1..Len(colorMap) :
              Rank(colorMap, n) <= Len(extractedColors) =>
                 Len(extractedColors[Rank(colorMap, n)]) = 7

\* fewer than five buckets, one of them with a channel of 260, all returned
C12_Witness ==
    /\ pc = "done" /\ IsRgbaBuffer(pixels)
    /\ Len(colorMap) \in 2..4
    /\ \E n \in 1..Len(colorMap) : colorMap[n].r = 260
    /\ Len(extractedColors) = Len(colorMap)

\* more than five buckets, one of the five best with a channel of 260
C12_WitnessTopFive ==
    /\ pc = "done"
    /\ Len(colorMap) > 5
    /\ \E n \in 1..Len(colorMap) :
          colorMap[n].r = 260 /\ Rank(colorMap, n) <= 5
    /\ Len(extractedColors) = 5

\* C15: the strings returned by one extraction are pairwise distinct.
C15_DistinctColours ==
    pc = "done" =>
        \A m, n \in 1..Len(extractedColors) :
            extractedColors[m] = extractedColors[n] => m = n

\* two returned colours whose buckets differ only in one channel, 240
\* against 260 (encoded f0 against ff)
C15_Witness ==
    /\ pc = "done" /\ IsRgbaBuffer(pixels)
    /\ \E m, n \in 1..Len(colorMap) :
          /\ colorMap[m].r = 240 /\ colorMap[n].r = 260
          /\ colorMap[m].g = colorMap[n].g /\ colorMap[m].b = colorMap[n].b
    /\ Len(extractedColors) = Len(colorMap)
    /\ \E m, n \in 1..Len(extractedColors) :
          /\ SubSeq(extractedColors[m], 2, 3) = <<"f", "0">>
          /\ SubSeq(extractedColors[n], 2, 3) = <<"f", "f">>
          /\ SubSeq(extractedColors[m], 4, 7) = SubSeq(extractedColors[n], 4, 7)

(***************************************************************************)
(* Properties of the handlers, checked under SpecUI.                       *)
(***************************************************************************)
\* the number of empty slots among the first k
EmptyUpTo(cs, k) == Cardinality({j \in 1..k : cs[j] = <<>>})

\* cs with the colours of cols in its first Len(cols) empty slots, in order
FilledInOrder(cs, cols) ==
    [k \in 1..Len(cs) |->
        IF cs[k] = <<>> /\ EmptyUpTo(cs, k) <= Len(cols)
        THEN cols[EmptyUpTo(cs, k)] ELSE cs[k]]

\* C13: 'Add All Colors', clicked with n extracted colours and at least n
\* empty slots, leaves the n colours in the first n previously empty slots,
\* in extraction order, and every other slot unchanged.
C13_AddAllInsertsEvery ==
    (lastOp = "addAll"
        /\ Len(extractedColors) <= EmptyUpTo(prevColors, PaletteSlots)) =>
        colors = FilledInOrder(prevColors, extractedColors)

\* an uploaded file that is an image and gets a canvas of non-zero size
Decodable(f) ==
    /\ FileIsImage(f)
    /\ CanvasSize(FileSize(f)[1], FileSize(f)[2])[1] > 0
    /\ CanvasSize(FileSize(f)[1], FileSize(f)[2])[2] > 0

\* C14: after two images were uploaded and all their callbacks have run, in
\* whatever order, the extracted colours are those of the image shown as
\* the preview.
C14_PreviewMatchesColours ==
    (/\ Len(uploadLog) = 2
     /\ \A n \in 1..2 : Decodable(uploadLog[n])
     /\ pending = {}) =>
        /\ uploadedImage # "null"
        /\ extractedColors = ExtractColors(FileBuffer(uploadedImage))

====
